---- MODULE Spec2Model ----
(***************************************************************************)
(* ADS-B log enrichment (Final-Project/SNR_RSS_analysis).  The module      *)
(* models one run of analyze(): the log is read, timestamps are parsed and *)
(* corrected, the resolved columns are seeded from the logged ones, the    *)
(* OpenSky fill loop walks the rows under the call budget, distances are   *)
(* computed and the frame is saved.                                        *)
(*                                                                         *)
(* Optional values (Python None / a value) are sequences of length 0 or 1: *)
(* None is << >>, a present value v is << v >>.  Numbers are integers;     *)
(* times are seconds of the day (the date's epoch is a multiple of 10 and  *)
(* drops out of the quantization).                                         *)
(***************************************************************************)
EXTENDS Integers, Sequences, FiniteSets, TLC

\* ------------------------------------------------------------------------
\* Bounds of the model
\* ------------------------------------------------------------------------
MaxRows == 2
MaxBudget == 2

\* ------------------------------------------------------------------------
\* Optional values
\* ------------------------------------------------------------------------
None == << >>
Some(v) == << v >>
IsNone(x) == x = << >>
Val(x) == x[1]

\* ------------------------------------------------------------------------
\* Strings: sequences of one-character strings
\* ------------------------------------------------------------------------
Tab == "\t"
Whitespace == {" ", Tab}

RECURSIVE lstrip(_)
lstrip(s) ==
    IF s = << >> THEN s
    ELSE IF Head(s) \in Whitespace THEN lstrip(Tail(s)) ELSE s

RECURSIVE rstrip(_)
rstrip(s) ==
    IF s = << >> THEN s
    ELSE IF s[Len(s)] \in Whitespace THEN rstrip(SubSeq(s, 1, Len(s) - 1)) ELSE s

\* str.strip(): surrounding whitespace of every kind goes.
strip(s) == rstrip(lstrip(s))

\* str.replace(" ", ""): only the space character goes.
RemoveSpaces(s) == SelectSeq(s, LAMBDA c : c # " ")

LowerChar(c) ==
    CASE c = "A" -> "a" [] c = "B" -> "b" [] c = "C" -> "c"
      [] c = "D" -> "d" [] c = "E" -> "e" [] c = "F" -> "f"
      [] c = "G" -> "g" [] c = "X" -> "x"
      [] OTHER -> c

\* str.lower().
lower(s) == [i \in 1 .. Len(s) |-> LowerChar(s[i])]

\* n copies of the character c.
Rep(c, n) == [i \in 1 .. n |-> c]

\* ------------------------------------------------------------------------
\* Message columns
\* ------------------------------------------------------------------------
\* astype(str) of the Message column: a missing cell reads 'nan'.
astype_str(x) == IF IsNone(x) THEN << "n", "a", "n" >> ELSE Val(x)

\* Line 362: Message_str.
Message_str(message) == RemoveSpaces(strip(astype_str(message)))

msg_len_class_KeepsSpaces(message_hex) ==
    IF IsNone(message_hex) THEN "unknown"
    ELSE LET s == strip(Val(message_hex))
         IN  IF Len(s) = 14 THEN "short"
             ELSE IF Len(s) = 28 THEN "extended"
             ELSE "unknown"

\* Lines 146-161.  message_hex is None or Some(string).
msg_len_class(message_hex) ==
    IF IsNone(message_hex) THEN "unknown"
    ELSE LET s == RemoveSpaces(strip(Val(message_hex)))
             n == Len(s)
         IN  IF n = 14 THEN "short"
             ELSE IF n = 28 THEN "extended"
             ELSE "unknown"

\* ------------------------------------------------------------------------
\* Time anchors (seconds of the day) and the linear map
\* ------------------------------------------------------------------------
ANCHOR_1_MATLAB == 63611
ANCHOR_1_REAL == 63611
ANCHOR_2_MATLAB == 64135
ANCHOR_2_REAL == 64590

\* LinearTimeMapper.from_anchors + map_dt, then int(): a*s + b with
\* a = (r2 - r1)/(m2 - m1), b = r1 - a*m1, truncated to whole seconds.
map_dt(s) ==
    ANCHOR_1_REAL
      + ((ANCHOR_2_REAL - ANCHOR_1_REAL) * (s - ANCHOR_1_MATLAB))
          \div (ANCHOR_2_MATLAB - ANCHOR_1_MATLAB)

\* ------------------------------------------------------------------------
\* Unit conversions (three decimals of the factors)
\* ------------------------------------------------------------------------
m_to_ft(m) == IF IsNone(m) THEN None ELSE Some((Val(m) * 3281) \div 1000)
mps_to_kts(v) == IF IsNone(v) THEN None ELSE Some((Val(v) * 1944) \div 1000)

\* ------------------------------------------------------------------------
\* Inputs: the rows a log may hold, the snapshots the service may return
\* ------------------------------------------------------------------------
\* A 112-bit and a 56-bit message as logged.
MessageExtended ==
    << "8", "d", "4", "8", "4", "0", "d", "6", "2", "0", "2", "c", "c", "3",
       "7", "1", "c", "3", "2", "c", "e", "0", "5", "7", "6", "0", "9", "8" >>
MessageShort ==
    << "5", "d", "4", "8", "4", "0", "d", "6", " ", "0", "0", "0", "0", "0", "0" >>

KinFull == [Message |-> Some(MessageExtended), Latitude |-> Some(25), Longitude |-> Some(121), Altitude |-> Some(1000), Speed |-> Some(200), Heading |-> Some(90)]
KinZero == [Message |-> Some(MessageShort), Latitude |-> Some(0), Longitude |-> Some(0), Altitude |-> Some(0), Speed |-> Some(0), Heading |-> Some(0)]
KinNoLon == [Message |-> Some(MessageExtended), Latitude |-> Some(25), Longitude |-> None, Altitude |-> Some(1000), Speed |-> Some(200), Heading |-> Some(90)]
KinBlank == [Message |-> Some(MessageShort), Latitude |-> None, Longitude |-> None, Altitude |-> None, Speed |-> None, Heading |-> None]
KinEquator == [Message |-> None, Latitude |-> Some(0), Longitude |-> Some(121), Altitude |-> Some(0), Speed |-> None, Heading |-> Some(0)]

Kinematics == {KinFull, KinZero, KinNoLon, KinBlank, KinEquator}

MkRow(t, i, k) ==
    [Time |-> t, ICAO24 |-> i, Message |-> k.Message,
     Latitude |-> k.Latitude, Longitude |-> k.Longitude,
     Altitude |-> k.Altitude, Speed |-> k.Speed, Heading |-> k.Heading]

\* Rows of a log: identified rows of every kind, rows without an identifier,
\* and a row whose timestamp strptime cannot parse (Time is None).
LogRows ==
    { MkRow(t, Some("a"), k) : t \in {Some(63613), Some(63615)}, k \in Kinematics }
    \cup { MkRow(Some(63613), None, k) : k \in {KinZero, KinNoLon} }
    \cup { MkRow(None, Some("a"), KinZero) }

\* State vectors as get_state keeps them (lines 309-318).
Snapshots ==
    { [lat |-> Some(24), lon |-> Some(120), baro_alt_m |-> Some(3000),
       geo_alt_m |-> Some(3100), vel_mps |-> Some(100), true_track_deg |-> Some(270)],
      [lat |-> Some(24), lon |-> None, baro_alt_m |-> None,
       geo_alt_m |-> Some(3100), vel_mps |-> Some(100), true_track_deg |-> Some(270)],
      [lat |-> Some(24), lon |-> Some(120), baro_alt_m |-> None,
       geo_alt_m |-> None, vel_mps |-> Some(100), true_track_deg |-> None],
      [lat |-> None, lon |-> None, baro_alt_m |-> None,
       geo_alt_m |-> None, vel_mps |-> None, true_track_deg |-> None] }

\* What the remote service can do with one query.
Failures == {"exception", "non200", "empty"}
Responses == [kind : Failures] \cup [kind : {"states"}, row : Snapshots]

RECURSIVE SeqsUpTo(_, _)
SeqsUpTo(S, n) ==
    IF n = 0 THEN { << >> }
    ELSE LET shorter == SeqsUpTo(S, n - 1)
         IN  shorter \cup { Append(s, x) : s \in { q \in shorter : Len(q) = n - 1 }, x \in S }

\* ------------------------------------------------------------------------
\* State
\* ------------------------------------------------------------------------
VARIABLES
    log,            \* the rows read by pd.read_csv, in file order
    use_opensky,    \* analyze() argument
    max_api_calls,  \* analyze() argument
    authenticated,  \* OpenSkyClient holds credentials
    pc,             \* position in analyze()
    df,             \* the data frame: one record per row
    idx,            \* row the fill loop is at
    api_calls,      \* analyze()'s counter
    cache,          \* OpenSkyClient.cache: key -> None or Some(snapshot)
    queried,        \* key -> number of session.get calls made for it
    resp,           \* what the last get_state call met: "none", "hit" or a response kind
    st,             \* the value the last get_state call returned
    out,            \* the rows written by to_csv
    slept,          \* the last get_state call of the loop was followed by time.sleep
    arg,            \* the argument of a helper called on its own
    ret             \* None before that call, Some(result) after it

vars == << log, use_opensky, max_api_calls, authenticated, pc, df, idx,
           api_calls, cache, queried, resp, st, out, slept, arg, ret >>

cfg == << log, use_opensky, max_api_calls, authenticated >>

pure == << arg, ret >>

\* ------------------------------------------------------------------------
\* OpenSkyClient
\* ------------------------------------------------------------------------
\* The remainder with the sign of the dividend (C's %, not Python's).
round_query_time_Truncates(epoch_s, auth) ==
    LET g == IF auth THEN 5 ELSE 10
    IN  IF epoch_s >= 0 THEN epoch_s - (epoch_s % g)
        ELSE epoch_s + ((0 - epoch_s) % g)

\* Lines 268-271.  Python's % takes the sign of the divisor, as % does here.
round_query_time(epoch_s, auth) ==
    epoch_s - (epoch_s % (IF auth THEN 5 ELSE 10))

\* get_state lines 280-282.
Key(icao24, epoch_s) == << icao24, round_query_time(epoch_s, authenticated) >>

CacheHas_IgnoresNoData(c, key) == key \in DOMAIN c /\ ~IsNone(c[key])

\* get_state line 283: key in self.cache.
CacheHas(c, key) == key \in DOMAIN c

CacheStore_Replaces(c, key, value) == (key :> value)

\* get_state lines 298, 303, 319, 322: self.cache[key] = value.
CacheStore(c, key, value) ==
    IF key \in DOMAIN c THEN [c EXCEPT ![key] = value] ELSE c @@ (key :> value)

\* One more session.get for key (line 290).
Bump(q, key) ==
    IF key \in DOMAIN q THEN [q EXCEPT ![key] = @ + 1] ELSE q @@ (key :> 1)

StateOf_DropsFailure(r) ==
    IF r.kind = "states" THEN Some(r.row)
    ELSE Some([lat |-> None, lon |-> None, baro_alt_m |-> None,
               geo_alt_m |-> None, vel_mps |-> None, true_track_deg |-> None])

\* The value get_state stores and returns for a response (lines 297-323).
StateOf(r) ==
    IF r.kind = "states" THEN Some(r.row) ELSE None

\* ------------------------------------------------------------------------
\* analyze(): helpers
\* ------------------------------------------------------------------------
missing_pos(lat, lon) ==
    IsNone(lat) \/ IsNone(lon) \/ (lat = Some(0) /\ lon = Some(0))

missing_val(x) == IsNone(x) \/ x = Some(0)

needs_fill_PositionOnly(row) ==
    IF IsNone(row.ICAO24_norm) THEN FALSE
    ELSE missing_pos(row.Lat, row.Lon)

\* Lines 414-424.
needs_fill(row) ==
    IF IsNone(row.ICAO24_norm) THEN FALSE
    ELSE \/ missing_pos(row.Lat, row.Lon)
         \/ missing_val(row.Alt_ft)
         \/ missing_val(row.Spd_kts)

\* Lines 359-402: the columns derived from one log row.
SeedRow(r) ==
    [ICAO24_norm |-> r.ICAO24,
     SquitterType |-> msg_len_class(Some(Message_str(r.Message))),
     RealEpoch |-> map_dt(Val(r.Time)),
     Heading |-> r.Heading,
     Lat_log |-> r.Latitude, Lon_log |-> r.Longitude,
     Alt_log |-> r.Altitude, Spd_log |-> r.Speed,
     Lat |-> r.Latitude, Lon |-> r.Longitude,
     Alt_ft |-> r.Altitude, Spd_kts |-> r.Speed,
     DistHoriz |-> FALSE, DistSlant |-> FALSE]

FillRow_Always(row, s) ==
    LET fillPos == ~IsNone(s.lat) /\ ~IsNone(s.lon)
        alt_m   == IF IsNone(s.baro_alt_m) THEN s.geo_alt_m ELSE s.baro_alt_m
        alt_ft  == m_to_ft(alt_m)
        spd_kts == mps_to_kts(s.vel_mps)
    IN  [row EXCEPT
           !.Lat = IF fillPos THEN s.lat ELSE @,
           !.Lon = IF fillPos THEN s.lon ELSE @,
           !.Alt_ft = IF ~IsNone(alt_ft) THEN alt_ft ELSE @,
           !.Spd_kts = IF ~IsNone(spd_kts) THEN spd_kts ELSE @,
           !.Heading = IF ~IsNone(s.true_track_deg) THEN s.true_track_deg ELSE @]

FillRow_PerCoordinate(row, s) ==
    LET missing == missing_pos(row.Lat, row.Lon)
        alt_m   == IF IsNone(s.baro_alt_m) THEN s.geo_alt_m ELSE s.baro_alt_m
        alt_ft  == m_to_ft(alt_m)
        spd_kts == mps_to_kts(s.vel_mps)
    IN  [row EXCEPT
           !.Lat = IF missing /\ ~IsNone(s.lat) THEN s.lat ELSE @,
           !.Lon = IF missing /\ ~IsNone(s.lon) THEN s.lon ELSE @,
           !.Alt_ft = IF missing_val(row.Alt_ft) /\ ~IsNone(alt_ft) THEN alt_ft ELSE @,
           !.Spd_kts = IF missing_val(row.Spd_kts) /\ ~IsNone(spd_kts) THEN spd_kts ELSE @,
           !.Heading = IF missing_val(row.Heading) /\ ~IsNone(s.true_track_deg)
                       THEN s.true_track_deg ELSE @]

FillRow_BaroOnly(row, s) ==
    LET fillPos == missing_pos(row.Lat, row.Lon) /\ ~IsNone(s.lat) /\ ~IsNone(s.lon)
        alt_ft  == m_to_ft(s.baro_alt_m)
        spd_kts == mps_to_kts(s.vel_mps)
    IN  [row EXCEPT
           !.Lat = IF fillPos THEN s.lat ELSE @,
           !.Lon = IF fillPos THEN s.lon ELSE @,
           !.Alt_ft = IF missing_val(row.Alt_ft) /\ ~IsNone(alt_ft) THEN alt_ft ELSE @,
           !.Spd_kts = IF missing_val(row.Spd_kts) /\ ~IsNone(spd_kts) THEN spd_kts ELSE @,
           !.Heading = IF missing_val(row.Heading) /\ ~IsNone(s.true_track_deg)
                       THEN s.true_track_deg ELSE @]

\* Lines 441-466: the fields of row overwritten from snapshot s.
FillRow(row, s) ==
    LET fillPos == missing_pos(row.Lat, row.Lon) /\ ~IsNone(s.lat) /\ ~IsNone(s.lon)
        alt_m   == IF IsNone(s.baro_alt_m) THEN s.geo_alt_m ELSE s.baro_alt_m
        alt_ft  == m_to_ft(alt_m)
        spd_kts == mps_to_kts(s.vel_mps)
    IN  [row EXCEPT
           !.Lat = IF fillPos THEN s.lat ELSE @,
           !.Lon = IF fillPos THEN s.lon ELSE @,
           !.Alt_ft = IF missing_val(row.Alt_ft) /\ ~IsNone(alt_ft) THEN alt_ft ELSE @,
           !.Spd_kts = IF missing_val(row.Spd_kts) /\ ~IsNone(spd_kts) THEN spd_kts ELSE @,
           !.Heading = IF missing_val(row.Heading) /\ ~IsNone(s.true_track_deg)
                       THEN s.true_track_deg ELSE @]

AfterState_AllRows(frame, i, s) ==
    IF IsNone(s) THEN frame
    ELSE [j \in 1 .. Len(frame) |-> FillRow(frame[j], Val(s))]

\* Lines 438-469: what the loop body does to the frame with get_state's value.
AfterState(frame, i, s) ==
    IF IsNone(s) THEN frame
    ELSE [frame EXCEPT ![i] = FillRow(frame[i], Val(s))]

\* Lines 438-439 and 469: the iteration reaches time.sleep unless
\* 'if not st: continue' leaves it first.
ReachesSleep(s) == ~IsNone(s)

\* Lines 479-497: which distances compute_dist returns for a row.
compute_dist(row) ==
    IF missing_pos(row.Lat, row.Lon) THEN [row EXCEPT !.DistHoriz = FALSE, !.DistSlant = FALSE]
    ELSE IF missing_val(row.Alt_ft) THEN [row EXCEPT !.DistHoriz = TRUE, !.DistSlant = FALSE]
    ELSE [row EXCEPT !.DistHoriz = TRUE, !.DistSlant = TRUE]

BackfillEnabled_Always == TRUE

\* Line 426: if use_opensky and client is not None (client is set iff use_opensky).
BackfillEnabled == use_opensky

\* The key the loop body passes to get_state for the row it is at (lines 433-435).
RowKey == Key(Val(df[idx].ICAO24_norm), df[idx].RealEpoch)

BudgetSpent_OffByOne == api_calls > max_api_calls

BudgetSpent_MissesOnly ==
    /\ api_calls >= max_api_calls
    /\ ~(needs_fill(df[idx]) /\ CacheHas(cache, RowKey))

\* Line 428: api_calls >= max_api_calls.
BudgetSpent == api_calls >= max_api_calls

to_csv_DropsNoFix(frame) == SelectSeq(frame, LAMBDA r : r.DistHoriz)

\* Line 512: df.to_csv writes every row of the frame.
to_csv(frame) == frame

\* ------------------------------------------------------------------------
\* Initial state: analyze() called on a log
\* ------------------------------------------------------------------------
Init ==
    /\ log \in SeqsUpTo(LogRows, MaxRows)
    /\ use_opensky \in BOOLEAN
    /\ max_api_calls \in (0 - 1) .. MaxBudget
    /\ authenticated \in BOOLEAN
    /\ pc = "read"
    /\ df = << >>
    /\ idx = 1
    /\ api_calls = 0
    /\ cache = << >>
    /\ queried = << >>
    /\ resp = "none"
    /\ st = None
    /\ out = << >>
    /\ slept = FALSE
    /\ arg = None
    /\ ret = None

\* ------------------------------------------------------------------------
\* Steps of analyze()
\* ------------------------------------------------------------------------
\* Line 373: a timestamp strptime rejects raises out of analyze().
ParseAbort ==
    /\ pc = "read"
    /\ \E i \in 1 .. Len(log) : IsNone(log[i].Time)
    /\ pc' = "aborted"
    /\ UNCHANGED << pure, cfg, slept, df, idx, api_calls, cache, queried, resp, st, out >>

\* Lines 356-407: every column is derived, resolved fields seeded from the log.
Prepare ==
    /\ pc = "read"
    /\ \A i \in 1 .. Len(log) : ~IsNone(log[i].Time)
    /\ df' = [i \in 1 .. Len(log) |-> SeedRow(log[i])]
    /\ pc' = IF BackfillEnabled THEN "fill" ELSE "geometry"
    /\ UNCHANGED << pure, cfg, slept, idx, api_calls, cache, queried, resp, st, out >>

\* Line 427: the loop ends after the last row.
FillEnd ==
    /\ pc = "fill"
    /\ idx > Len(df)
    /\ pc' = "geometry"
    /\ UNCHANGED << pure, cfg, slept, df, idx, api_calls, cache, queried, resp, st, out >>

\* Lines 428-429: the loop ends when the budget is spent.
FillBreak ==
    /\ pc = "fill"
    /\ idx <= Len(df)
    /\ BudgetSpent
    /\ pc' = "geometry"
    /\ UNCHANGED << pure, cfg, slept, df, idx, api_calls, cache, queried, resp, st, out >>

\* Lines 430-431.
FillSkip ==
    /\ pc = "fill"
    /\ idx <= Len(df)
    /\ ~BudgetSpent
    /\ ~needs_fill(df[idx])
    /\ idx' = idx + 1
    /\ UNCHANGED << pure, cfg, slept, pc, df, api_calls, cache, queried, resp, st, out >>

\* Lines 433-469 with get_state answering from the cache (lines 283-284).
FillHit ==
    /\ pc = "fill"
    /\ idx <= Len(df)
    /\ ~BudgetSpent
    /\ needs_fill(df[idx])
    /\ CacheHas(cache, RowKey)
    /\ st' = cache[RowKey]
    /\ df' = AfterState(df, idx, cache[RowKey])
    /\ slept' = ReachesSleep(cache[RowKey])
    /\ api_calls' = api_calls + 1
    /\ resp' = "hit"
    /\ idx' = idx + 1
    /\ UNCHANGED << pure, cfg, pc, cache, queried, out >>

\* Lines 433-469 with get_state querying the service (lines 286-323).
FillMiss ==
    /\ pc = "fill"
    /\ idx <= Len(df)
    /\ ~BudgetSpent
    /\ needs_fill(df[idx])
    /\ ~CacheHas(cache, RowKey)
    /\ \E r \in Responses :
         /\ cache' = CacheStore(cache, RowKey, StateOf(r))
         /\ queried' = Bump(queried, RowKey)
         /\ resp' = r.kind
         /\ st' = StateOf(r)
         /\ df' = AfterState(df, idx, StateOf(r))
         /\ slept' = ReachesSleep(StateOf(r))
    /\ api_calls' = api_calls + 1
    /\ idx' = idx + 1
    /\ UNCHANGED << pure, cfg, pc, out >>

\* Lines 479-504.
ComputeDist ==
    /\ pc = "geometry"
    /\ df' = [i \in 1 .. Len(df) |-> compute_dist(df[i])]
    /\ pc' = "save"
    /\ UNCHANGED << pure, cfg, slept, idx, api_calls, cache, queried, resp, st, out >>

\* Lines 509-515.
Save ==
    /\ pc = "save"
    /\ out' = to_csv(df)
    /\ pc' = "done"
    /\ UNCHANGED << pure, cfg, slept, df, idx, api_calls, cache, queried, resp, st >>

Next ==
    \/ ParseAbort
    \/ Prepare
    \/ FillEnd
    \/ FillBreak
    \/ FillSkip
    \/ FillHit
    \/ FillMiss
    \/ ComputeDist
    \/ Save

Spec == Init /\ [][Next]_vars

\* ------------------------------------------------------------------------
\* Derived quantities
\* ------------------------------------------------------------------------
RECURSIVE SumOver(_, _)
SumOver(q, keys) ==
    IF keys = {} THEN 0
    ELSE LET k == CHOOSE x \in keys : TRUE
         IN  q[k] + SumOver(q, keys \ {k})

\* Number of live remote queries issued so far in the run.
Queries == SumOver(queried, DOMAIN queried)

\* Row r still carries its logged values in the resolved columns.
LogOnly(r) ==
    /\ r.Lat = r.Lat_log
    /\ r.Lon = r.Lon_log
    /\ r.Alt_ft = r.Alt_log
    /\ r.Spd_kts = r.Spd_log

\* ------------------------------------------------------------------------
\* Properties of the call budget and the cache
\* ------------------------------------------------------------------------

\* C1: the number of live remote queries issued during a run never exceeds
\* max_api_calls, and with max_api_calls <= 0 no remote query is issued.
C1_QueriesWithinBudget ==
    /\ max_api_calls > 0 => Queries <= max_api_calls
    /\ max_api_calls <= 0 => Queries = 0

\* The loop broke with rows left after the whole budget went into live queries.
C1_Witness ==
    /\ pc = "geometry"
    /\ idx <= Len(df)
    /\ max_api_calls >= 1
    /\ Queries = max_api_calls

\* C2: every key is queried at most once and is cached from its first query
\* on; a get_state call for a cached key issues no query and returns the
\* stored value, a call for a new key issues one query and stores what it
\* returns.
C2_OneQueryPerKey ==
    [][ /\ \A k \in DOMAIN queried' : queried'[k] = 1
        /\ DOMAIN queried' = DOMAIN cache'
        /\ api_calls' # api_calls =>
             IF RowKey \in DOMAIN cache
             THEN queried' = queried /\ st' = cache[RowKey]
             ELSE /\ RowKey \notin DOMAIN queried
                  /\ RowKey \in DOMAIN queried'
                  /\ st' = cache'[RowKey] ]_vars

\* A second call for a key whose first query found no data was answered from
\* the cache: two calls, one query.
C2_Witness ==
    /\ resp = "hit"
    /\ IsNone(st)
    /\ api_calls = 2
    /\ Queries = 1

\* C3: a stored cache entry is never removed or overwritten.
C3_CacheOnlyGrows ==
    [][ \A k \in DOMAIN cache : k \in DOMAIN cache' /\ cache'[k] = cache[k] ]_vars

\* A second key was stored while the first one was kept.
C3_Witness == Cardinality(DOMAIN cache) = 2

\* C4: a failed remote query makes get_state return None, store None under
\* the key, and the loop moves to the next row with the frame untouched.
C4_FailureIsNoData ==
    [][ (api_calls' # api_calls /\ resp' \in Failures) =>
            /\ IsNone(st')
            /\ RowKey \in DOMAIN cache'
            /\ IsNone(cache'[RowKey])
            /\ pc' = "fill"
            /\ idx' = idx + 1
            /\ df' = df ]_vars

\* The first row's query failed and the loop stands at the second row.
C4_Witness ==
    /\ pc = "fill"
    /\ resp \in Failures
    /\ idx = 2
    /\ Len(df) >= 2
    /\ \E k \in DOMAIN cache : IsNone(cache[k])

\* C5: with backfill disabled every row's resolved fields equal the logged
\* ones and no remote query is issued.
C5_DisabledKeepsLog ==
    ~use_opensky =>
        /\ \A i \in 1 .. Len(df) : LogOnly(df[i])
        /\ \A i \in 1 .. Len(out) : LogOnly(out[i])
        /\ Queries = 0
        /\ api_calls = 0

\* A disabled run with budget to spare finished with a row that needed filling.
C5_Witness ==
    /\ pc = "done"
    /\ ~use_opensky
    /\ max_api_calls >= 1
    /\ \E i \in 1 .. Len(out) : needs_fill(out[i])

\* C6 as stated: each of the four resolved fields differs from its logged
\* value only if that logged field itself was missing (absent; zero for
\* altitude or speed; part of the (0,0) pair for latitude and longitude).
C6_Original ==
    \A i \in 1 .. Len(df) :
        LET r == df[i]
            zeroPair == r.Lat_log = Some(0) /\ r.Lon_log = Some(0)
        IN  /\ r.Lat # r.Lat_log => (IsNone(r.Lat_log) \/ zeroPair)
            /\ r.Lon # r.Lon_log => (IsNone(r.Lon_log) \/ zeroPair)
            /\ r.Alt_ft # r.Alt_log => missing_val(r.Alt_log)
            /\ r.Spd_kts # r.Spd_log => missing_val(r.Spd_log)

\* C6 amended: latitude and longitude are one field, the position, missing
\* when either coordinate is absent or both are zero; a resolved position,
\* altitude or speed differs from the logged one only if that logged field
\* was missing.
C6_OnlyMissingOverwritten ==
    \A i \in 1 .. Len(df) :
        LET r == df[i]
        IN  /\ (r.Lat # r.Lat_log \/ r.Lon # r.Lon_log) => missing_pos(r.Lat_log, r.Lon_log)
            /\ r.Alt_ft # r.Alt_log => missing_val(r.Alt_log)
            /\ r.Spd_kts # r.Spd_log => missing_val(r.Spd_log)

\* The row just filled kept its logged position although the snapshot carried
\* a different one, and had its altitude replaced.
C6_Witness ==
    /\ pc = "fill"
    /\ idx > 1
    /\ resp = "states"
    /\ ~IsNone(st)
    /\ ~IsNone(Val(st).lat)
    /\ ~IsNone(Val(st).lon)
    /\ ~missing_pos(df[idx - 1].Lat_log, df[idx - 1].Lon_log)
    /\ df[idx - 1].Lat = df[idx - 1].Lat_log
    /\ df[idx - 1].Lat # Val(st).lat
    /\ df[idx - 1].Alt_ft # df[idx - 1].Alt_log

\* C7 as stated: the counter the run reports equals the number of remote
\* queries issued (a call answered from the cache does not count).
C7_CounterCountsQueries == api_calls = Queries

\* C8: the counter of get_state calls never passes max_api_calls, and once it
\* has reached it every row from the loop's position on keeps its logged
\* values, in the frame and in the output.
C8_BudgetEndsFilling ==
    /\ max_api_calls >= 0 => api_calls <= max_api_calls
    /\ max_api_calls < 0 => api_calls = 0
    /\ (pc \notin {"read", "aborted"} /\ api_calls >= max_api_calls) =>
          \A i \in idx .. Len(df) : LogOnly(df[i])
    /\ (pc = "done" /\ api_calls >= max_api_calls) =>
          \A i \in idx .. Len(out) : LogOnly(out[i])

\* The run ended on the budget with a row left whose altitude is missing and
\* whose key is cached with a snapshot that carries an altitude.
C8_Witness ==
    /\ pc = "done"
    /\ max_api_calls >= 1
    /\ api_calls = max_api_calls
    /\ \E i \in idx .. Len(out) :
          /\ ~IsNone(out[i].ICAO24_norm)
          /\ missing_val(out[i].Alt_log)
          /\ LET k == Key(Val(out[i].ICAO24_norm), out[i].RealEpoch)
             IN  /\ k \in DOMAIN cache
                 /\ ~IsNone(cache[k])
                 /\ ~IsNone(Val(cache[k]).geo_alt_m)

\* C9: a completed run emits one record per input row, in the input order.
C9_OneRecordPerRow ==
    pc = "done" =>
        /\ Len(out) = Len(log)
        /\ \A i \in 1 .. Len(log) :
              /\ out[i].ICAO24_norm = log[i].ICAO24
              /\ out[i].RealEpoch = map_dt(Val(log[i].Time))
              /\ out[i].Lat_log = log[i].Latitude
              /\ out[i].Lon_log = log[i].Longitude
              /\ out[i].Alt_log = log[i].Altitude
              /\ out[i].Spd_log = log[i].Speed

\* A run over two different rows completed after at least one lookup, with a
\* row that has no position.
C9_Witness ==
    /\ pc = "done"
    /\ Len(out) = Len(log)
    /\ Len(log) >= 2
    /\ log[1] # log[2]
    /\ api_calls >= 1
    /\ \E i \in 1 .. Len(out) : ~out[i].DistHoriz

\* C10 as stated: a row whose timestamp cannot be parsed does not abort the
\* run.
C10_BadTimestampNotFatal ==
    (\E i \in 1 .. Len(log) : IsNone(log[i].Time)) => pc # "aborted"

\* C24: in the fill loop the fixed delay follows every get_state call that
\* issued a live remote query, whatever it returned, and no call answered
\* from the cache.
C24_DelayAfterLiveOnly ==
    /\ resp = "hit" => ~slept
    /\ resp \in Failures \cup {"states"} => slept

\* ------------------------------------------------------------------------
\* Properties of the fill loop's writes
\* ------------------------------------------------------------------------
\* A get_state call is made in this step (line 435).
Lookup == api_calls' # api_calls

C27_FillTouchesOneRow ==
    [][ pc = "fill" =>
          /\ Len(df') = Len(df)
          /\ \A i \in 1 .. Len(df) :
                /\ i # idx => df'[i] = df[i]
                /\ df'[i] = [df[i] EXCEPT !.Lat = df'[i].Lat, !.Lon = df'[i].Lon,
                                          !.Alt_ft = df'[i].Alt_ft,
                                          !.Spd_kts = df'[i].Spd_kts,
                                          !.Heading = df'[i].Heading] ]_vars

\* The second of two rows was filled and the first, which also lacks
\* values, is as logged.
C27_Witness ==
    /\ pc = "fill"
    /\ idx = 3
    /\ ~LogOnly(df[2])
    /\ LogOnly(df[1])
    /\ missing_pos(df[1].Lat, df[1].Lon)
    /\ ~IsNone(df[1].ICAO24_norm)

\* C28: latitude and longitude are replaced together or not at all: both are
\* written when the row's position is missing and the snapshot has both
\* coordinates; with a snapshot holding only one, both stay at their logged
\* values, while its altitude and speed are applied all the same.
C28_PositionAsPair ==
    [][ (pc = "fill" /\ Lookup /\ st' # None) =>
          LET r == df[idx]
              w == df'[idx]
              s == Val(st')
              both == s.lat # None /\ s.lon # None
              noPos == r.Lat = None \/ r.Lon = None \/ (r.Lat = Some(0) /\ r.Lon = Some(0))
              alt_m == IF s.baro_alt_m # None THEN s.baro_alt_m ELSE s.geo_alt_m
          IN  /\ IF noPos /\ both
                 THEN w.Lat = s.lat /\ w.Lon = s.lon
                 ELSE w.Lat = r.Lat_log /\ w.Lon = r.Lon_log
              /\ (missing_val(r.Alt_ft) /\ alt_m # None) => w.Alt_ft = m_to_ft(alt_m)
              /\ (missing_val(r.Spd_kts) /\ s.vel_mps # None) =>
                    w.Spd_kts = mps_to_kts(s.vel_mps) ]_vars

\* A snapshot with a latitude and no longitude left the missing position of
\* the row as logged and replaced its altitude and speed.
C28_Witness ==
    /\ pc = "fill"
    /\ idx > 1
    /\ st # None
    /\ Val(st).lat # None
    /\ Val(st).lon = None
    /\ missing_pos(df[idx - 1].Lat_log, df[idx - 1].Lon_log)
    /\ df[idx - 1].Lat = df[idx - 1].Lat_log
    /\ df[idx - 1].Lon = df[idx - 1].Lon_log
    /\ df[idx - 1].Alt_ft # df[idx - 1].Alt_log
    /\ df[idx - 1].Spd_kts # df[idx - 1].Spd_log

NoRun ==
    /\ log = << >>
    /\ use_opensky = FALSE
    /\ max_api_calls = 0
    /\ authenticated = FALSE
    /\ pc = "off"
    /\ df = << >>
    /\ idx = 1
    /\ api_calls = 0
    /\ cache = << >>
    /\ queried = << >>
    /\ resp = "none"
    /\ st = None
    /\ out = << >>
    /\ slept = FALSE

run == << log, use_opensky, max_api_calls, authenticated, pc, df, idx,
          api_calls, cache, queried, resp, st, out, slept >>

\* ------------------------------------------------------------------------
\* OpenSkyClient.round_query_time on its own
\* ------------------------------------------------------------------------
RoundSpan == 30

InitRound ==
    /\ NoRun
    /\ arg \in [epoch_s : (0 - RoundSpan) .. RoundSpan, authenticated : BOOLEAN]
    /\ ret = None

CallRound ==
    /\ IsNone(ret)
    /\ ret' = Some(round_query_time(arg.epoch_s, arg.authenticated))
    /\ UNCHANGED << run, arg >>

SpecRound == InitRound /\ [][CallRound]_vars

\* C19: round_query_time floors the epoch to the 5 s grid when authenticated
\* and to the 10 s grid otherwise, negative epochs included, and is idempotent.
C19_FloorsToGrid ==
    ~IsNone(ret) =>
        LET g == IF arg.authenticated THEN 5 ELSE 10
            t == Val(ret)
        IN  /\ t <= arg.epoch_s
            /\ arg.epoch_s < t + g
            /\ t % g = 0
            /\ round_query_time(t, arg.authenticated) = t

\* A negative epoch off the grid was rounded down on the 10 s grid.
C19_Witness ==
    /\ ~IsNone(ret)
    /\ arg.epoch_s = 0 - 13
    /\ ~arg.authenticated
    /\ Val(ret) = 0 - 20

\* ------------------------------------------------------------------------
\* tc_category on its own
\* ------------------------------------------------------------------------
TcSpan == 32

\* int(): truncation toward zero of a number given in halves.
IntOfHalves(h) == IF h >= 0 THEN h \div 2 ELSE 0 - ((0 - h) \div 2)

tc_category_ShortBaro(tc) ==
    IF IsNone(tc) THEN << "TC_unknown" >>
    ELSE LET t == IntOfHalves(Val(tc))
         IN  IF 1 <= t /\ t <= 4 THEN << "ID_TC1-4" >>
             ELSE IF 5 <= t /\ t <= 8 THEN << "SurfacePos_TC5-8" >>
             ELSE IF 9 <= t /\ t < 18 THEN << "AirbornePos_Baro_TC9-18" >>
             ELSE IF t = 19 THEN << "Velocity_TC19" >>
             ELSE IF 20 <= t /\ t <= 22 THEN << "AirbornePos_GNSS_TC20-22" >>
             ELSE IF t = 28 THEN << "Status_TC28" >>
             ELSE IF t = 0 THEN << "TC0_or_not_decoded" >>
             ELSE << "Other_TC", t >>

\* Lines 164-185.  tc is None or Some(h), the type code counted in halves;
\* the label f"Other_TC{t}" is the pair << "Other_TC", t >>.
tc_category(tc) ==
    IF IsNone(tc) THEN << "TC_unknown" >>
    ELSE LET t == IntOfHalves(Val(tc))
         IN  IF 1 <= t /\ t <= 4 THEN << "ID_TC1-4" >>
             ELSE IF 5 <= t /\ t <= 8 THEN << "SurfacePos_TC5-8" >>
             ELSE IF 9 <= t /\ t <= 18 THEN << "AirbornePos_Baro_TC9-18" >>
             ELSE IF t = 19 THEN << "Velocity_TC19" >>
             ELSE IF 20 <= t /\ t <= 22 THEN << "AirbornePos_GNSS_TC20-22" >>
             ELSE IF t = 28 THEN << "Status_TC28" >>
             ELSE IF t = 0 THEN << "TC0_or_not_decoded" >>
             ELSE << "Other_TC", t >>

InitTc ==
    /\ NoRun
    /\ arg \in {None} \cup { Some(h) : h \in (0 - 2 * TcSpan) .. (2 * TcSpan) }
    /\ ret = None

CallTc ==
    /\ IsNone(ret)
    /\ ret' = Some(tc_category(arg))
    /\ UNCHANGED << run, arg >>

SpecTc == InitTc /\ [][CallTc]_vars

\* The category the claim gives to the whole type code n.
TcTable(n) ==
    IF n \in 1 .. 4 THEN << "ID_TC1-4" >>
    ELSE IF n \in 5 .. 8 THEN << "SurfacePos_TC5-8" >>
    ELSE IF n \in 9 .. 18 THEN << "AirbornePos_Baro_TC9-18" >>
    ELSE IF n = 19 THEN << "Velocity_TC19" >>
    ELSE IF n \in 20 .. 22 THEN << "AirbornePos_GNSS_TC20-22" >>
    ELSE IF n = 28 THEN << "Status_TC28" >>
    ELSE IF n = 0 THEN << "TC0_or_not_decoded" >>
    ELSE << "Other_TC", n >>

\* C18 as stated: the table for whole type codes, and an absent code gives
\* the same 'not decoded' category as the code 0.
C18_Original ==
    ~IsNone(ret) =>
        /\ (~IsNone(arg) /\ Val(arg) % 2 = 0) => Val(ret) = TcTable(Val(arg) \div 2)
        /\ IsNone(arg) => Val(ret) = << "TC0_or_not_decoded" >>

\* C18 amended: the table for whole type codes; an absent code gives the
\* label TC_unknown, which no number gives.
C18_Categories ==
    ~IsNone(ret) =>
        /\ (~IsNone(arg) /\ Val(arg) % 2 = 0) => Val(ret) = TcTable(Val(arg) \div 2)
        /\ IsNone(arg) <=> Val(ret) = << "TC_unknown" >>

\* The last code of the barometric range was categorised.
C18_Witness ==
    /\ arg = Some(36)
    /\ ret = Some(<< "AirbornePos_Baro_TC9-18" >>)

\* ------------------------------------------------------------------------
\* msg_len_class on its own
\* ------------------------------------------------------------------------
MsgLenMax == 30

\* A message: lead, then n characters c (the middle one replaced by mid when
\* there are at least three, a space put after the first when gap), then trail.
\* n counts the characters left once surrounding whitespace and spaces go.
MsgText(a) ==
    LET body == [i \in 1 .. a.n |->
                    IF a.n >= 3 /\ i = (a.n + 1) \div 2 THEN a.mid ELSE a.c]
        spaced == IF a.gap /\ a.n >= 2
                  THEN << body[1], " " >> \o SubSeq(body, 2, a.n)
                  ELSE body
    IN  a.lead \o spaced \o a.trail

MsgArgs ==
    [missing : {FALSE}, lead : {<< >>, << " " >>, << Tab, " " >>},
     trail : {<< >>, << " ", Tab >>}, n : 0 .. MsgLenMax, c : {"a", "g"},
     mid : {"5", Tab}, gap : BOOLEAN]
    \cup [missing : {TRUE}, lead : {<< >>}, trail : {<< >>}, n : {0}, c : {"a"},
          mid : {"5"}, gap : {FALSE}]

MsgOf(a) == IF a.missing THEN None ELSE Some(MsgText(a))

InitLen ==
    /\ NoRun
    /\ arg \in MsgArgs
    /\ ret = None

CallLen ==
    /\ IsNone(ret)
    /\ ret' = Some(msg_len_class(MsgOf(arg)))
    /\ UNCHANGED << run, arg >>

SpecLen == InitLen /\ [][CallLen]_vars

\* C15: 'short' for every string of 14 characters once surrounding
\* whitespace and spaces are removed, whatever the characters, 'extended' for
\* 28, 'unknown' for every other length and for a missing message.
C15_ClassByLength ==
    ~IsNone(ret) =>
        Val(ret) = IF arg.missing THEN "unknown"
                   ELSE IF arg.n = 14 THEN "short"
                   ELSE IF arg.n = 28 THEN "extended"
                   ELSE "unknown"

\* A padded message of 14 non-hex characters with a space and a tab inside
\* was classified short.
C15_Witness ==
    /\ ret = Some("short")
    /\ arg.c = "g"
    /\ arg.gap
    /\ arg.mid = Tab
    /\ arg.lead # << >>
    /\ Len(MsgText(arg)) > 14

\* ------------------------------------------------------------------------
\* normalize_icao24 on its own
\* ------------------------------------------------------------------------
IcaoLenMax == 7

HexLower ==
    {"0", "1", "2", "3", "4", "5", "6", "7", "8", "9", "a", "b", "c", "d", "e", "f"}

AllIn(s, chars) == \A i \in 1 .. Len(s) : s[i] \in chars

normalize_icao24_AnyLength(x) ==
    IF IsNone(x) THEN None
    ELSE LET s == strip(Val(x))
         IN  IF s = << >> THEN None
             ELSE LET t == lower(RemoveSpaces(s))
                  IN  IF AllIn(t, HexLower) THEN Some(t) ELSE None

\* Lines 129-143.  x is None or Some(string).
normalize_icao24(x) ==
    IF IsNone(x) THEN None
    ELSE LET s == strip(Val(x))
         IN  IF s = << >> THEN None
             ELSE LET t == lower(RemoveSpaces(s))
                  IN  IF AllIn(t, HexLower) /\ Len(t) = 6 THEN Some(t) ELSE None

\* An identifier cell: lead, the core characters (sep put after the first when
\* the core has at least two), trail.  The core has no whitespace.
IcaoCores ==
    UNION {[1 .. n -> {"1", "E", "g"}] : n \in 0 .. IcaoLenMax}

IcaoText(a) ==
    LET spaced == IF Len(a.core) >= 2
                  THEN << a.core[1] >> \o a.sep \o SubSeq(a.core, 2, Len(a.core))
                  ELSE a.core
    IN  a.lead \o spaced \o a.trail

IcaoArgs ==
    [missing : {FALSE}, lead : {<< >>, << " " >>, << Tab >>},
     trail : {<< >>, << " " >>, << Tab >>}, core : IcaoCores,
     sep : {<< >>, << " " >>, << Tab >>}]
    \cup [missing : {TRUE}, lead : {<< >>}, trail : {<< >>}, core : {<< >>},
          sep : {<< >>}]

IcaoOf(a) == IF a.missing THEN None ELSE Some(IcaoText(a))

InitIcao ==
    /\ NoRun
    /\ arg \in IcaoArgs
    /\ ret = None

CallIcao ==
    /\ IsNone(ret)
    /\ ret' = Some(normalize_icao24(IcaoOf(arg)))
    /\ UNCHANGED << run, arg >>

SpecIcao == InitIcao /\ [][CallIcao]_vars

\* The statement as written: the result is the input lowercased with spaces
\* removed when that is exactly six characters of 0-9a-f, absent otherwise.
C16_Original ==
    ~IsNone(ret) =>
        LET t == IF arg.missing THEN << >> ELSE lower(RemoveSpaces(IcaoText(arg)))
        IN  Val(ret) = IF Len(t) = 6 /\ AllIn(t, HexLower) THEN Some(t) ELSE None

\* C16: the result is the input with surrounding whitespace stripped, spaces
\* removed and lowercased when that is exactly six characters of 0-9a-f, and
\* absent for a missing, blank, wrong-length or non-hex input; a returned
\* value is six lowercase hex digits and normalizes to itself.
C16_Normalized ==
    ~IsNone(ret) =>
        LET core == IF Len(arg.core) >= 2 /\ arg.sep = << Tab >>
                    THEN << arg.core[1], Tab >> \o Tail(arg.core)
                    ELSE arg.core
            t == lower(core)
            r == Val(ret)
        IN  /\ r = IF ~arg.missing /\ Len(t) = 6 /\ AllIn(t, HexLower)
                   THEN Some(t) ELSE None
            /\ ~IsNone(r) =>
                  /\ Len(Val(r)) = 6
                  /\ AllIn(Val(r), HexLower)
                  /\ normalize_icao24(r) = r

\* A tab-padded, space-separated, mixed-case identifier was normalized.
C16_Witness ==
    /\ ret = Some(Some(<< "1", "e", "1", "e", "e", "1" >>))
    /\ arg.lead = << Tab >>
    /\ arg.sep = << " " >>
    /\ arg.trail = << Tab >>

\* ------------------------------------------------------------------------
\* extract_icao24_from_df11 on its own
\* ------------------------------------------------------------------------
HexAlphabet == << "0", "1", "2", "3", "4", "5", "6", "7", "8", "9",
                  "a", "b", "c", "d", "e", "f" >>

HexUpper == {"A", "B", "C", "D", "E", "F"}

HexDigits == HexLower \cup HexUpper

\* Value of one hex digit, either case.
HexVal(c) == (CHOOSE i \in 1 .. 16 : HexAlphabet[i] = LowerChar(c)) - 1

Bit(b) == IF b = 1 THEN "1" ELSE "0"

\* The four binary digits of v in 0..15.
Bits4(v) ==
    << Bit(v \div 8), Bit((v \div 4) % 2), Bit((v \div 2) % 2), Bit(v % 2) >>

RECURSIVE Flatten(_)
Flatten(ss) == IF ss = << >> THEN << >> ELSE Head(ss) \o Flatten(Tail(ss))

RECURSIVE DropZeros(_)
DropZeros(b) ==
    IF Len(b) <= 1 THEN b
    ELSE IF Head(b) = "0" THEN DropZeros(Tail(b)) ELSE b

\* The digit groups int() accepts: digits with single underscores between.
Grouped(s, digits) ==
    /\ s # << >>
    /\ s[1] \in digits
    /\ s[Len(s)] \in digits
    /\ \A i \in 1 .. Len(s) : s[i] \in digits \cup {"_"}
    /\ \A i \in 1 .. Len(s) - 1 : ~(s[i] = "_" /\ s[i + 1] = "_")

\* What int(s, base) reads: an optional sign, an optional base prefix (0x for
\* 16, 0b for 2) that one underscore may follow, then grouped digits.
Unsigned(s) == IF s # << >> /\ s[1] \in {"+", "-"} THEN Tail(s) ELSE s

Unprefixed(s, p) ==
    LET u == Unsigned(s)
        v == IF Len(u) >= 2 /\ u[1] = "0" /\ LowerChar(u[2]) = p
             THEN SubSeq(u, 3, Len(u)) ELSE u
    IN  IF v # u /\ v # << >> /\ v[1] = "_" THEN Tail(v) ELSE v

IsNegative(s) == s # << >> /\ s[1] = "-"

Digits(s, p) == SelectSeq(Unprefixed(s, p), LAMBDA c : c # "_")

\* bin(int(s, 16))[2:] for a string int() accepts: no leading zeros, and for a
\* negative number the 'b' of '-0b...' stays in front.
bin2(s) ==
    LET d == Digits(s, "x")
        m == DropZeros(Flatten([i \in 1 .. Len(d) |-> Bits4(HexVal(d[i]))]))
    IN  IF IsNegative(s) /\ m # << "0" >> THEN << "b" >> \o m ELSE m

\* str.zfill(width) of a string that does not start with a sign.
zfill(b, width) == IF Len(b) >= width THEN b ELSE Rep("0", width - Len(b)) \o b

BinDigits == {"0", "1"}

RECURSIVE BinValue(_)
BinValue(b) ==
    IF b = << >> THEN 0
    ELSE 2 * BinValue(SubSeq(b, 1, Len(b) - 1)) + (IF b[Len(b)] = "1" THEN 1 ELSE 0)

\* f"{v:06x}" for 0 <= v < 16^6.
Hex06(v) ==
    [i \in 1 .. 6 |->
        HexAlphabet[((v \div (CASE i = 1 -> 1048576 [] i = 2 -> 65536
                                [] i = 3 -> 4096 [] i = 4 -> 256
                                [] i = 5 -> 16 [] OTHER -> 1)) % 16) + 1]]

Returned(v) == [raised |-> FALSE, value |-> v]
Raised == [raised |-> TRUE, value |-> None]

extract_icao24_from_df11_AfterDf(message_hex) ==
    IF IsNone(message_hex) THEN Returned(None)
    ELSE LET s == RemoveSpaces(strip(Val(message_hex)))
         IN  IF Len(s) # 14 THEN Returned(None)
             ELSE IF ~Grouped(Unprefixed(s, "x"), HexDigits) THEN Returned(None)
             ELSE LET bits == zfill(bin2(s), 56)
                      head == SubSeq(bits, 1, 5)
                      aa_bits == SubSeq(bits, 6, 29)
                  IN  IF ~Grouped(Unprefixed(head, "b"), BinDigits) THEN Raised
                      ELSE IF BinValue(Digits(head, "b")) # 11 THEN Returned(None)
                      ELSE IF ~Grouped(Unprefixed(aa_bits, "b"), BinDigits) THEN Raised
                      ELSE Returned(Some(Hex06(BinValue(Digits(aa_bits, "b")))))

\* Lines 187-212.  message_hex is None or Some(string).  Only int(s, 16) sits
\* inside the try; the two int(..., 2) calls after it are unguarded.
extract_icao24_from_df11(message_hex) ==
    IF IsNone(message_hex) THEN Returned(None)
    ELSE LET s == RemoveSpaces(strip(Val(message_hex)))
         IN  IF Len(s) # 14 THEN Returned(None)
             ELSE IF ~Grouped(Unprefixed(s, "x"), HexDigits) THEN Returned(None)
             ELSE LET bits == zfill(bin2(s), 56)
                      head == SubSeq(bits, 1, 5)
                      aa_bits == SubSeq(bits, 9, 32)
                  IN  IF ~Grouped(Unprefixed(head, "b"), BinDigits) THEN Raised
                      ELSE IF BinValue(Digits(head, "b")) # 11 THEN Returned(None)
                      ELSE IF ~Grouped(Unprefixed(aa_bits, "b"), BinDigits) THEN Raised
                      ELSE Returned(Some(Hex06(BinValue(Digits(aa_bits, "b")))))

\* Messages of 14 hex digits: every pair of leading digits, either case.
HexMessages ==
    {<< c1, c2 >> \o mid \o tail :
        c1 \in HexLower \cup {"A"}, c2 \in HexLower \cup {"F"},
        mid \in {<< "0", "0", "0", "0", "2", "a" >>,
                 << "F", "F", "f", "f", "f", "f" >>,
                 << "a", "1", "B", "2", "c", "3" >>},
        tail \in {Rep("0", 6), << "9", "e", "8", "d", "7", "c" >>}}

\* Other strings: signs, prefixes, underscores, non-hex letters, whitespace,
\* and lengths around 14.
OddMessages ==
    {<< c1, c2 >> \o rest :
        c1 \in {"-", "+", "_", "x", "g", "0", " "},
        c2 \in {"4", "f", "x", "X", "_", "3", "0"},
        rest \in {Rep("0", 12), Rep("0", 11), Rep("0", 13),
                  Rep("0", 4) \o << "_" >> \o Rep("0", 7),
                  Rep("0", 5) \o << "g" >> \o Rep("0", 6),
                  Rep("0", 4) \o << Tab >> \o Rep("0", 7),
                  Rep("0", 4) \o << " " >> \o Rep("0", 8),
                  Rep("f", 12)}}

Df11Args ==
    {None} \cup {Some(m) : m \in HexMessages \cup OddMessages}

InitDf11 ==
    /\ NoRun
    /\ arg \in Df11Args
    /\ ret = None

CallDf11 ==
    /\ IsNone(ret)
    /\ ret' = Some(extract_icao24_from_df11(arg))
    /\ UNCHANGED << run, arg >>

SpecDf11 == InitDf11 /\ [][CallDf11]_vars

\* C13: for a message of exactly 14 hex digits the result is hex digits 3 to
\* 8 (bits 8..31 from the most significant) in lowercase exactly when the top
\* five bits equal 11, and absent for any other value of the top five bits.
C13_Df11Identity ==
    (~IsNone(ret) /\ ~IsNone(arg) /\ Len(Val(arg)) = 14
       /\ AllIn(Val(arg), HexDigits)) =>
        LET m == Val(arg)
            top5 == 2 * HexVal(m[1]) + HexVal(m[2]) \div 8
        IN  /\ ~Val(ret).raised
            /\ Val(ret).value = IF top5 = 11 THEN Some(lower(SubSeq(m, 3, 8)))
                                ELSE None

\* DF bits 01011 followed by identity bits ...101010 decoded to '00002a'.
C13_Witness ==
    /\ arg = Some(<< "5", "8" >> \o << "0", "0", "0", "0", "2", "a" >> \o Rep("0", 6))
    /\ ret = Some(Returned(Some(<< "0", "0", "0", "0", "2", "a" >>)))

\* C14: for every input, missing or a string over hex digits, signs,
\* underscores, 'x', other letters and spaces, the function returns absent or
\* a six-hex-digit identifier and raises nothing.
C14_NeverRaises ==
    ~IsNone(ret) =>
        /\ ~Val(ret).raised
        /\ \/ IsNone(Val(ret).value)
           \/ /\ Len(Val(Val(ret).value)) = 6
              /\ AllIn(Val(Val(ret).value), HexLower)

\* ------------------------------------------------------------------------
\* The geometry step of the three scripts
\* ------------------------------------------------------------------------
Variants == {"log", "rss", "snr"}

\* adsb_rss_analysis.py lines 411-427 and adsb_snr_analysis.py lines 327-343:
\* which of (horiz_m, slant_m, elev_deg, aircraft_alt_m) compute_geometry
\* returns for a row.
compute_geometry(row) ==
    IF missing_pos(row.Lat, row.Lon)
    THEN [horiz_m |-> FALSE, slant_m |-> FALSE, elev_deg |-> FALSE, aircraft_alt_m |-> FALSE]
    ELSE IF missing_val(row.Alt_ft)
    THEN [horiz_m |-> TRUE, slant_m |-> FALSE, elev_deg |-> FALSE, aircraft_alt_m |-> FALSE]
    ELSE [horiz_m |-> TRUE, slant_m |-> TRUE, elev_deg |-> TRUE, aircraft_alt_m |-> TRUE]

GeomArgs ==
    [variant : Variants,
     Lat : {None, Some(0), Some(25), Some(0 - 33)},
     Lon : {None, Some(0), Some(121), Some(0 - 70)},
     Alt_ft : {None, Some(0), Some(35000), Some(49), Some(0 - 50)}]

\* The distance columns a script writes for one row: the log script has
\* DistHoriz_m and DistSlant_m (lines 500-502), the other two also Elev_deg.
GeomColumns(a) ==
    LET row == [Lat |-> a.Lat, Lon |-> a.Lon, Alt_ft |-> a.Alt_ft,
                DistHoriz |-> FALSE, DistSlant |-> FALSE]
    IN  IF a.variant = "log"
        THEN LET d == compute_dist(row)
             IN  [DistHoriz_m |-> d.DistHoriz, DistSlant_m |-> d.DistSlant,
                  Elev_deg |-> FALSE]
        ELSE LET g == compute_geometry(row)
             IN  [DistHoriz_m |-> g.horiz_m, DistSlant_m |-> g.slant_m,
                  Elev_deg |-> g.elev_deg]

InitGeom ==
    /\ NoRun
    /\ arg \in GeomArgs
    /\ ret = None

CallGeom ==
    /\ IsNone(ret)
    /\ ret' = Some(GeomColumns(arg))
    /\ UNCHANGED << run, arg >>

SpecGeom == InitGeom /\ [][CallGeom]_vars

\* C20: no distance field when latitude or longitude is absent or both are
\* 0; a horizontal distance for every other position; slant range and
\* elevation exactly when, besides, the altitude is present and non-zero.
C20_GeometryFields ==
    ~IsNone(ret) =>
        LET noPos == \/ arg.Lat = None
                     \/ arg.Lon = None
                     \/ (arg.Lat = Some(0) /\ arg.Lon = Some(0))
            hasAlt == arg.Alt_ft # None /\ arg.Alt_ft # Some(0)
            g == Val(ret)
        IN  /\ g.DistHoriz_m = ~noPos
            /\ g.DistSlant_m = (~noPos /\ hasAlt)
            /\ g.Elev_deg = (~noPos /\ hasAlt)

\* ------------------------------------------------------------------------
\* Identity resolution of one row in the three scripts
\* ------------------------------------------------------------------------
\* adsb_rss_analysis.py line 328, adsb_snr_analysis.py line 243: the logged
\* identifier normalized, nothing else.
ResolveLogged(row) ==
    [raised |-> FALSE, decoded |-> FALSE, ICAO24_norm |-> normalize_icao24(row.ICAO24)]

\* adsb_log_analysis.py lines 365-369: the logged identifier normalized, and
\* for a row without one the DF11 decode of Message_str; an exception of the
\* decode ends analyze.
ResolveIdentity(row) ==
    LET n == normalize_icao24(row.ICAO24)
    IN  IF ~IsNone(n)
        THEN [raised |-> FALSE, decoded |-> FALSE, ICAO24_norm |-> n]
        ELSE LET d == extract_icao24_from_df11(Some(Message_str(row.Message)))
             IN  [raised |-> d.raised, decoded |-> TRUE, ICAO24_norm |-> d.value]

IdentRows ==
    [variant : Variants,
     ICAO24 : {None, Some(<< >>), Some(<< "a", "b", "c", "1", "2", "3" >>), Some(<< " ", "A", "B", " ", "C", "1", " ", "2", "3", " " >>), Some(<< "x", "y", "z" >>), Some(<< "4", "8", "4", "0", "d", "6" >>)},
     Message : {None, Some(<< "5", "8", "0", "0", "0", "0", "2", "a", "0", "0", "0", "0", "0", "0" >>), Some(<< "5", "d", "4", "8", "4", "0", "d", "6", "0", "0", "0", "0", "0", "0" >>), Some(<< "8", "d", "4", "8", "4", "0", "d", "6", "2", "0", "2", "c", "c", "3", "7", "1", "c", "3", "2", "c", "e", "0", "5", "7", "6", "0", "9", "8" >>), Some(<< "0", "0", "0", "0", "0", "0", "0", "0", "0", "0", "0", "0", "0", "0" >>), Some(<< "-", "4", "0", "0", "0", "0", "0", "0", "0", "0", "0", "0", "0", "0" >>), Some(<< " ", "5", "8", " ", "0", "0", " ", "0", "0", " ", "2", "A", " ", "0", "0", " ", "0", "0", " ", "0", "0", " " >>)}]

InitIdent ==
    /\ NoRun
    /\ arg \in IdentRows
    /\ ret = None

CallIdentLog ==
    /\ IsNone(ret)
    /\ arg.variant = "log"
    /\ ret' = Some(ResolveIdentity(arg))
    /\ UNCHANGED << run, arg >>

CallIdentOther ==
    /\ IsNone(ret)
    /\ arg.variant # "log"
    /\ ret' = Some(ResolveLogged(arg))
    /\ UNCHANGED << run, arg >>

SpecIdent == InitIdent /\ [][CallIdentLog \/ CallIdentOther]_vars

\* C17: the resolved identity is the normalized logged identifier whenever
\* that is present; the DF11 decode is applied only to rows whose logged
\* identifier is absent; such a row with a decodable DF11 payload gets the
\* decoded identifier rather than absent.
C17_IdentityResolved ==
    ~IsNone(ret) =>
        LET n == normalize_icao24(arg.ICAO24)
            d == extract_icao24_from_df11(Some(Message_str(arg.Message)))
            r == Val(ret)
        IN  /\ ~IsNone(n) => (r.ICAO24_norm = n /\ ~r.decoded /\ ~r.raised)
            /\ r.decoded => IsNone(n)
            /\ (IsNone(n) /\ ~IsNone(d.value)) => r.ICAO24_norm = d.value

\* ------------------------------------------------------------------------
\* Python floats (IEEE-754 binary64) as exact numbers
\* ------------------------------------------------------------------------
\* A natural number is a little-endian sequence of limbs in 0 .. Base-1 with
\* no leading zero limb; zero is the empty sequence.
LimbBits == 13
Base == 8192
MantissaBits == 53

Max(i, j) == IF i >= j THEN i ELSE j
Min(i, j) == IF i <= j THEN i ELSE j

RECURSIVE Pow2(_)
Pow2(n) == IF n = 0 THEN 1 ELSE 2 * Pow2(n - 1)

RECURSIVE Trim(_)
Trim(x) ==
    IF x = << >> THEN x
    ELSE IF x[Len(x)] = 0 THEN Trim(SubSeq(x, 1, Len(x) - 1)) ELSE x

\* Carry propagation over limbs that may lie outside 0 .. Base-1 (negative
\* limbs borrow); the total must not be negative.
RECURSIVE Carry(_, _)
Carry(x, c) ==
    IF x = << >>
    THEN IF c = 0 THEN << >> ELSE << c % Base >> \o Carry(<< >>, c \div Base)
    ELSE << (Head(x) + c) % Base >> \o Carry(Tail(x), (Head(x) + c) \div Base)

Limb(x, i) == IF i >= 1 /\ i <= Len(x) THEN x[i] ELSE 0

FromInt(n) == Carry(<< >>, n)

AddN(x, y) ==
    Trim(Carry([i \in 1 .. Max(Len(x), Len(y)) |-> Limb(x, i) + Limb(y, i)], 0))

\* x - y for x >= y.
SubN(x, y) ==
    Trim(Carry([i \in 1 .. Max(Len(x), Len(y)) |-> Limb(x, i) - Limb(y, i)], 0))

RECURSIVE LessFrom(_, _, _)
LessFrom(x, y, i) ==
    IF i = 0 THEN FALSE
    ELSE IF x[i] # y[i] THEN x[i] < y[i]
    ELSE LessFrom(x, y, i - 1)

LessN(x, y) ==
    IF Len(x) # Len(y) THEN Len(x) < Len(y) ELSE LessFrom(x, y, Len(x))

RECURSIVE DotFrom(_, _, _, _)
DotFrom(x, y, k, i) ==
    IF i > Len(x) THEN 0
    ELSE x[i] * Limb(y, k + 1 - i) + DotFrom(x, y, k, i + 1)

MulN(x, y) ==
    Trim(Carry([k \in 1 .. Len(x) + Len(y) |-> DotFrom(x, y, k, 1)], 0))

\* Quotient and remainder of x by a divisor d with d * Base < 2^31.
RECURSIVE DivSmall(_, _)
DivSmall(x, d) ==
    IF x = << >> THEN [q |-> << >>, r |-> 0]
    ELSE LET hi == DivSmall(Tail(x), d)
             t == hi.r * Base + Head(x)
         IN  [q |-> << t \div d >> \o hi.q, r |-> t % d]

ShiftL(x, n) ==
    Trim(Carry(Rep(0, n \div LimbBits)
               \o [i \in 1 .. Len(x) |-> x[i] * Pow2(n % LimbBits)], 0))

\* floor(x / 2^n).
ShiftR(x, n) ==
    IF n \div LimbBits >= Len(x) THEN << >>
    ELSE Trim(DivSmall(SubSeq(x, n \div LimbBits + 1, Len(x)), Pow2(n % LimbBits)).q)

RECURSIVE BitLenInt(_)
BitLenInt(n) == IF n = 0 THEN 0 ELSE 1 + BitLenInt(n \div 2)

BitLen(x) ==
    IF x = << >> THEN 0 ELSE LimbBits * (Len(x) - 1) + BitLenInt(x[Len(x)])

IsOdd(x) == x # << >> /\ x[1] % 2 = 1

\* A float is sign * m * 2^e with m a natural number below 2^53 (at most
\* 2^53 right after a round-up) and e an integer.
FZero == [neg |-> FALSE, m |-> << >>, e |-> 0]

\* Round m * 2^e to 53 bits, ties to even; sticky says that the exact value
\* lies strictly above m * 2^e (bits lost by a division).
RoundN_Truncates(neg, m, e, sticky) ==
    IF m = << >> THEN FZero
    ELSE IF BitLen(m) <= MantissaBits THEN [neg |-> neg, m |-> m, e |-> e]
    ELSE LET sh == BitLen(m) - MantissaBits
         IN  [neg |-> neg, m |-> ShiftR(m, sh), e |-> e + sh]

RoundN(neg, m, e, sticky) ==
    IF m = << >> THEN FZero
    ELSE IF BitLen(m) <= MantissaBits THEN [neg |-> neg, m |-> m, e |-> e]
    ELSE LET sh == BitLen(m) - MantissaBits
             q == ShiftR(m, sh)
             rem == SubN(m, ShiftL(q, sh))
             half == ShiftL(<< 1 >>, sh - 1)
             up == \/ LessN(half, rem)
                   \/ (rem = half /\ (sticky \/ IsOdd(q)))
         IN  [neg |-> neg, m |-> IF up THEN AddN(q, << 1 >>) ELSE q, e |-> e + sh]

\* The same number with an odd mantissa, so that equal numbers are equal
\* records.
RECURSIVE Canon(_)
Canon(f) ==
    IF f.m = << >> THEN FZero
    ELSE IF f.m[1] = 0
    THEN Canon([f EXCEPT !.m = Tail(f.m), !.e = f.e + LimbBits])
    ELSE IF f.m[1] % 2 = 0
    THEN Canon([f EXCEPT !.m = ShiftR(f.m, 1), !.e = f.e + 1])
    ELSE f

\* float(n) for an integer below 2^31 in size.
FromIntF(n) ==
    IF n >= 0 THEN [neg |-> FALSE, m |-> FromInt(n), e |-> 0]
    ELSE [neg |-> TRUE, m |-> FromInt(0 - n), e |-> 0]

FNeg(x) == IF x.m = << >> THEN x ELSE [x EXCEPT !.neg = ~x.neg]

\* x + y, rounded once.
FAdd(x, y) ==
    LET e == Min(x.e, y.e)
        mx == ShiftL(x.m, x.e - e)
        my == ShiftL(y.m, y.e - e)
    IN  IF x.m = << >> THEN y
        ELSE IF y.m = << >> THEN x
        ELSE IF x.neg = y.neg THEN RoundN(x.neg, AddN(mx, my), e, FALSE)
        ELSE IF LessN(mx, my) THEN RoundN(y.neg, SubN(my, mx), e, FALSE)
        ELSE RoundN(x.neg, SubN(mx, my), e, FALSE)

FSub(x, y) == FAdd(x, FNeg(y))

\* x * y, rounded once.
FMul(x, y) == RoundN(x.neg # y.neg, MulN(x.m, y.m), x.e + y.e, FALSE)

\* float(n) / float(d) for integers n and d # 0 below 2^17 in size: the
\* quotient is taken with GuardBits extra binary places and rounded once.
GuardBits == 78

FDivInt(n, d) ==
    LET an == IF n < 0 THEN 0 - n ELSE n
        ad == IF d < 0 THEN 0 - d ELSE d
        qr == DivSmall(ShiftL(FromInt(an), GuardBits), ad)
    IN  RoundN((n < 0) # (d < 0), Trim(qr.q), 0 - GuardBits, qr.r # 0)

FEq(x, y) == Canon(x) = Canon(y)

\* ------------------------------------------------------------------------
\* The time mapper with the anchors as inputs
\* ------------------------------------------------------------------------
MaxTimeRows == 1
SecondsPerDay == 86400

\* datetime.timestamp() of a time of day on a date, for a zone without
\* offset changes: whole seconds.
timestamp(day, sec) == day * SecondsPerDay + sec

from_anchors_RealCheck(c) ==
    LET m1s == timestamp(c.day, c.m1)
        r1s == timestamp(c.day, c.r1)
        m2s == timestamp(c.day, c.m2)
        r2s == timestamp(c.day, c.r2)
        a == IF m2s = m1s THEN FZero ELSE FDivInt(r2s - r1s, m2s - m1s)
        b == FSub(FromIntF(r1s), FMul(a, FromIntF(m1s)))
    IN  IF r2s = r1s THEN [raised |-> TRUE, a |-> FZero, b |-> FZero]
        ELSE [raised |-> FALSE, a |-> a, b |-> b]

\* Lines 87-109.  The four timestamps are whole seconds, so their difference
\* is below 1e-6 exactly when they are equal.
from_anchors(c) ==
    LET m1s == timestamp(c.day, c.m1)
        r1s == timestamp(c.day, c.r1)
        m2s == timestamp(c.day, c.m2)
        r2s == timestamp(c.day, c.r2)
        a == FDivInt(r2s - r1s, m2s - m1s)
        b == FSub(FromIntF(r1s), FMul(a, FromIntF(m1s)))
    IN  IF m2s = m1s THEN [raised |-> TRUE, a |-> FZero, b |-> FZero]
        ELSE [raised |-> FALSE, a |-> a, b |-> b]

\* Lines 111-113: rs = self.a * s + self.b.
map_rs(mapper, s) == FAdd(FMul(mapper.a, FromIntF(s)), mapper.b)

TimeArgs ==
    [day : {17400, 20437},
     m1 : {41506, 63611}, r1 : {1802, 63611},
     m2 : {35154, 64135, 41506, 63611}, r2 : {70657, 64590},
     rows : SeqsUpTo({"m1", "m2"}, MaxTimeRows)]

RowTime(c, k) == timestamp(c.day, IF k = "m1" THEN c.m1 ELSE c.m2)

InitTime ==
    /\ NoRun
    /\ arg \in TimeArgs
    /\ ret = None

\* Lines 376-379 with a date whose anchors are degenerate: the dictionary
\* comprehension raises and analyze ends.
MappersRaise ==
    /\ IsNone(ret)
    /\ arg.rows # << >>
    /\ from_anchors(arg).raised
    /\ ret' = Some([stage |-> "aborted", mapper |-> None, RealS |-> << >>, emitted |-> 0])
    /\ UNCHANGED << run, arg >>

\* Lines 376-379 otherwise: one mapper per date of the log, none for an
\* empty log.
MappersBuilt ==
    /\ IsNone(ret)
    /\ arg.rows = << >> \/ ~from_anchors(arg).raised
    /\ ret' = Some([stage |-> "mapped",
                    mapper |-> IF arg.rows = << >> THEN None ELSE Some(from_anchors(arg)),
                    RealS |-> << >>, emitted |-> 0])
    /\ UNCHANGED << run, arg >>

\* Lines 382-386: every row's raw time mapped.
MapRows ==
    /\ ~IsNone(ret)
    /\ Val(ret).stage = "mapped"
    /\ ret' = Some([Val(ret) EXCEPT
                      !.stage = "timed",
                      !.RealS = [i \in 1 .. Len(arg.rows) |->
                                    Canon(map_rs(Val(Val(ret).mapper), RowTime(arg, arg.rows[i])))]])
    /\ UNCHANGED << run, arg >>

\* Lines 509-515: the enriched records written, one per row.
EmitRows ==
    /\ ~IsNone(ret)
    /\ Val(ret).stage = "timed"
    /\ ret' = Some([Val(ret) EXCEPT !.stage = "saved", !.emitted = Len(arg.rows)])
    /\ UNCHANGED << run, arg >>

SpecTime == InitTime /\ [][MappersRaise \/ MappersBuilt \/ MapRows \/ EmitRows]_vars

\* C11: with equal raw anchor times from_anchors raises instead of returning
\* a mapper, and a run over a log of at least one row ends there, before any
\* enriched record is emitted.
C11_DegenerateAnchorsAbort ==
    arg.m1 = arg.m2 =>
        /\ from_anchors(arg).raised
        /\ (~IsNone(ret) /\ arg.rows # << >>) =>
              /\ Val(ret).stage = "aborted"
              /\ IsNone(Val(ret).mapper)
              /\ Val(ret).emitted = 0

\* A run over one row with equal raw anchor times has ended in the error.
C11_Witness ==
    /\ arg.m1 = arg.m2
    /\ arg.r1 # arg.r2
    /\ Len(arg.rows) = 1
    /\ ~IsNone(ret)
    /\ Val(ret).stage = "aborted"

\* C12: for anchors whose raw times differ, the mapper sends each anchor's raw
\* time to that anchor's true time exactly: a*m1 + b = r1 and a*m2 + b = r2.
C12_AnchorsRoundTrip ==
    arg.m1 # arg.m2 =>
        LET mapper == from_anchors(arg)
        IN  /\ FEq(map_rs(mapper, timestamp(arg.day, arg.m1)),
                   FromIntF(timestamp(arg.day, arg.r1)))
            /\ FEq(map_rs(mapper, timestamp(arg.day, arg.m2)),
                   FromIntF(timestamp(arg.day, arg.r2)))

\* ------------------------------------------------------------------------
\* haversine_m in fixed point
\* ------------------------------------------------------------------------
\* Angles are whole degrees, multiples of 15; sines are scaled by Scale.
EARTH_R == 6371000
Scale == 10000
SinTable == << 0, 2588, 5000, 7071, 8660, 9659, 10000 >>

\* math.sin(math.radians(x)): odd, and symmetric about 90 degrees.
RECURSIVE SinDeg(_)
SinDeg(x) ==
    IF x < 0 THEN 0 - SinDeg(0 - x)
    ELSE IF x > 180 THEN 0 - SinDeg(x - 180)
    ELSE IF x > 90 THEN SinDeg(180 - x)
    ELSE SinTable[x \div 15 + 1]

\* math.cos(math.radians(x)).
CosDeg(x) == SinDeg(90 - x)

\* math.sqrt of n / Scale, scaled by Scale: the integer root of n * Scale.
RECURSIVE RootBetween(_, _, _)
RootBetween(n, lo, hi) ==
    IF lo >= hi THEN lo
    ELSE LET mid == (lo + hi + 1) \div 2
         IN  IF mid * mid <= n THEN RootBetween(n, mid, hi)
             ELSE RootBetween(n, lo, mid - 1)

SqrtScaled(a) == RootBetween(a * Scale, 0, Scale)

\* math.asin of s / Scale in hundredths of a degree, by linear interpolation
\* in the sine table.
AsinCentiDeg(s) ==
    IF s >= Scale THEN 9000
    ELSE LET k == CHOOSE j \in 1 .. 6 : SinTable[j] <= s /\ s < SinTable[j + 1]
         IN  1500 * (k - 1)
               + (1500 * (s - SinTable[k])) \div (SinTable[k + 1] - SinTable[k])

\* Metres of arc on the sphere per hundredth of a degree of asin, times 2.
MetresPerCentiDeg == ((2 * (EARTH_R \div 1000)) * 3142) \div 18000

haversine_m_OwnCosine(lat1, lon1, lat2, lon2) ==
    LET sp == SinDeg((lat2 - lat1) \div 2)
        sl == SinDeg((lon2 - lon1) \div 2)
        a  == (sp * sp) \div Scale
                + (((CosDeg(lat1) * CosDeg(lat1)) \div Scale) * ((sl * sl) \div Scale)) \div Scale
    IN  MetresPerCentiDeg * AsinCentiDeg(SqrtScaled(a))

\* Lines 59-66 (and FP/process.py lines 33-40).
haversine_m(lat1, lon1, lat2, lon2) ==
    LET sp == SinDeg((lat2 - lat1) \div 2)
        sl == SinDeg((lon2 - lon1) \div 2)
        a  == (sp * sp) \div Scale
                + (((CosDeg(lat1) * CosDeg(lat2)) \div Scale) * ((sl * sl) \div Scale)) \div Scale
    IN  MetresPerCentiDeg * AsinCentiDeg(SqrtScaled(a))

Points ==
    [lat : {0 - 90, 0 - 60, 0 - 30, 0, 30, 60, 90},
     lon : {0 - 180, 0 - 120, 0 - 60, 0, 60, 120, 180}]

InitHav ==
    /\ NoRun
    /\ arg \in [a : Points, b : Points]
    /\ ret = None

CallHav ==
    /\ IsNone(ret)
    /\ ret' = Some([ab |-> haversine_m(arg.a.lat, arg.a.lon, arg.b.lat, arg.b.lon),
                    ba |-> haversine_m(arg.b.lat, arg.b.lon, arg.a.lat, arg.a.lon),
                    aa |-> haversine_m(arg.a.lat, arg.a.lon, arg.a.lat, arg.a.lon)])
    /\ UNCHANGED << run, arg >>

SpecHav == InitHav /\ [][CallHav]_vars

\* C21: the distance from a point to itself is 0, and the distance from a to
\* b equals the distance from b to a.
C21_ZeroAndSymmetric ==
    ~IsNone(ret) => (Val(ret).aa = 0 /\ Val(ret).ab = Val(ret).ba)

\* Two points in different hemispheres, a positive distance computed both ways.
C21_Witness ==
    /\ ~IsNone(ret)
    /\ arg.a.lat = 30 /\ arg.b.lat = 0 - 60
    /\ arg.a.lon = 120 /\ arg.b.lon = 0 - 60
    /\ Val(ret).ab > 0

\* ------------------------------------------------------------------------
\* One run of each script over a three-row log, backfill off
\* ------------------------------------------------------------------------
\* Row 1: (0,0) position and zero altitude.  Row 2: valid position and
\* altitude.  Row 3: a short message with a blank identifier and a DF11
\* payload.
ThreeRowArgs ==
    [variant : Variants,
     lat2 : {25, 0 - 33}, alt2 : {35000, 49},
     blank : {None, Some(<< >>), Some(<< " " >>)},
     msg3 : {<< "5", "8", "0", "0", "0", "0", "2", "a", "0", "0", "0", "0", "0", "0" >>, << "5", "d", "4", "8", "4", "0", "d", "6", "0", "0", "0", "0", "0", "0" >>, << " ", "5", "8", " ", "0", "0", " ", "0", "0", " ", "2", "A", " ", "0", "0", " ", "0", "0", " ", "0", "0", " " >>}]

ThreeRowLog(a) ==
    << [ICAO24 |-> Some(<< "a", "b", "c", "1", "2", "3" >>), Message |-> Some(<< "8", "d", "4", "8", "4", "0", "d", "6", "2", "0", "2", "c", "c", "3", "7", "1", "c", "3", "2", "c", "e", "0", "5", "7", "6", "0", "9", "8" >>),
        Lat |-> Some(0), Lon |-> Some(0), Alt_ft |-> Some(0)],
       [ICAO24 |-> Some(<< "a", "b", "c", "1", "2", "3" >>), Message |-> Some(<< "8", "d", "4", "8", "4", "0", "d", "6", "2", "0", "2", "c", "c", "3", "7", "1", "c", "3", "2", "c", "e", "0", "5", "7", "6", "0", "9", "8" >>),
        Lat |-> Some(a.lat2), Lon |-> Some(121), Alt_ft |-> Some(a.alt2)],
       [ICAO24 |-> a.blank, Message |-> Some(a.msg3),
        Lat |-> None, Lon |-> None, Alt_ft |-> None] >>

\* The identity step of the script (line 365-369, or line 328 / 243).
IdentityOf(variant, row) ==
    IF variant = "log" THEN ResolveIdentity(row) ELSE ResolveLogged(row)

InitThree ==
    /\ NoRun
    /\ arg \in ThreeRowArgs
    /\ ret = None

ThreeIdentity ==
    /\ IsNone(ret)
    /\ ret' = Some([stage |-> "identified",
                    ICAO24_norm |-> [i \in 1 .. 3 |->
                        IdentityOf(arg.variant, ThreeRowLog(arg)[i]).ICAO24_norm],
                    geom |-> << >>, out |-> << >>])
    /\ UNCHANGED << run, arg >>

ThreeGeometry ==
    /\ ~IsNone(ret)
    /\ Val(ret).stage = "identified"
    /\ ret' = Some([Val(ret) EXCEPT
                      !.stage = "measured",
                      !.geom = [i \in 1 .. 3 |->
                          LET r == ThreeRowLog(arg)[i]
                          IN  GeomColumns([variant |-> arg.variant, Lat |-> r.Lat,
                                           Lon |-> r.Lon, Alt_ft |-> r.Alt_ft])]])
    /\ UNCHANGED << run, arg >>

ThreeSave ==
    /\ ~IsNone(ret)
    /\ Val(ret).stage = "measured"
    /\ ret' = Some([Val(ret) EXCEPT
                      !.stage = "saved",
                      !.out = to_csv([i \in 1 .. 3 |->
                          [ICAO24_norm |-> Val(ret).ICAO24_norm[i],
                           geom |-> Val(ret).geom[i]]])])
    /\ UNCHANGED << run, arg >>

SpecThree == InitThree /\ [][ThreeIdentity \/ ThreeGeometry \/ ThreeSave]_vars

\* C22: the run over the three-row log emits three records; row 1 has no
\* distance field, row 2 has horizontal distance, slant range and elevation,
\* and row 3's identity is the identifier decoded from its DF11 payload.
C22_EndToEnd ==
    (~IsNone(ret) /\ Val(ret).stage = "saved") =>
        LET o == Val(ret).out
        IN  /\ Len(o) = 3
            /\ ~o[1].geom.DistHoriz_m /\ ~o[1].geom.DistSlant_m /\ ~o[1].geom.Elev_deg
            /\ o[2].geom.DistHoriz_m /\ o[2].geom.DistSlant_m /\ o[2].geom.Elev_deg
            /\ o[3].ICAO24_norm = Some(lower(SubSeq(RemoveSpaces(arg.msg3), 3, 8)))

\* ------------------------------------------------------------------------
\* Two callers of get_state on one OpenSkyClient
\* ------------------------------------------------------------------------
\* get_state holds no lock: the membership test of line 283, session.get of
\* line 290 and the cache writes of lines 298-322 are separate steps of a
\* caller, and the caller's api_calls += 1 (line 436) follows its return.
Callers == {"first", "second"}

ConcTimes == {100, 103, 110}

ConcRest == << log, use_opensky, max_api_calls, authenticated, pc, df, idx,
               resp, st, out, slept, arg >>

CallerKey(c) == Key(arg[c].icao24, arg[c].epoch_s)

InitConc ==
    /\ NoRun
    /\ arg \in [Callers -> [icao24 : {<< "a", "b", "c", "1", "2", "3" >>},
                            epoch_s : ConcTimes]]
    /\ ret = [c \in Callers |-> [at |-> "check", got |-> None]]

\* Lines 283-284: the key is cached, its value is returned.
ConcCheckHit ==
    \E c \in Callers :
        /\ ret[c].at = "check"
        /\ CacheHas(cache, CallerKey(c))
        /\ ret' = [ret EXCEPT ![c].at = "charge"]
        /\ UNCHANGED << ConcRest, cache, queried, api_calls >>

\* Line 283: the key is not cached, the caller goes on to query.
ConcCheckMiss ==
    \E c \in Callers :
        /\ ret[c].at = "check"
        /\ ~CacheHas(cache, CallerKey(c))
        /\ ret' = [ret EXCEPT ![c].at = "get"]
        /\ UNCHANGED << ConcRest, cache, queried, api_calls >>

\* Lines 290-296: session.get.
ConcGet ==
    \E c \in Callers, r \in Responses :
        /\ ret[c].at = "get"
        /\ queried' = Bump(queried, CallerKey(c))
        /\ ret' = [ret EXCEPT ![c] = [at |-> "store", got |-> Some(r)]]
        /\ UNCHANGED << ConcRest, cache, api_calls >>

\* Lines 297-323: the cache write for the response.
ConcStore ==
    \E c \in Callers :
        /\ ret[c].at = "store"
        /\ cache' = CacheStore(cache, CallerKey(c), StateOf(Val(ret[c].got)))
        /\ ret' = [ret EXCEPT ![c].at = "charge"]
        /\ UNCHANGED << ConcRest, queried, api_calls >>

\* Line 436: the caller counts its call.
ConcCharge ==
    \E c \in Callers :
        /\ ret[c].at = "charge"
        /\ api_calls' = api_calls + 1
        /\ ret' = [ret EXCEPT ![c].at = "done"]
        /\ UNCHANGED << ConcRest, cache, queried >>

SpecConc ==
    InitConc /\ [][ConcCheckHit \/ ConcCheckMiss \/ ConcGet \/ ConcStore \/ ConcCharge]_vars

MEAS_ALT_M == 15

Sign(x) == IF x > 0 THEN 1 ELSE IF x < 0 THEN 0 - 1 ELSE 0

Abs(x) == IF x < 0 THEN 0 - x ELSE x

\* float(alt_ft) / 3.280839895 (rss line 422, snr line 338), with three
\* decimals of the factor.
aircraft_alt_m(alt_mft) == alt_mft \div 3281

\* math.sqrt(x*x + y*y) in whole metres.
Hypot(x, y) == RootBetween(x * x + y * y, 0, 46340)

\* math.degrees(math.atan2(y, x)) for x >= 0: the angle whose sine is
\* y / hypot(x, y), with the sign of y; atan2(0, 0) is 0.
atan2_deg(y, x) ==
    IF y = 0 THEN 0
    ELSE Sign(y) * AsinCentiDeg((Abs(y) * Scale) \div Hypot(x, y))

\* rss lines 418-425, snr lines 334-341: elev_deg for a row with a position,
\* None when the altitude is missing.
elev_deg(horiz_m, alt_ft) ==
    IF missing_val(alt_ft) THEN None
    ELSE LET dh_m == aircraft_alt_m(Val(alt_ft)) - MEAS_ALT_M
         IN  Some(IF horiz_m > 0 THEN atan2_deg(dh_m, horiz_m)
                  ELSE IF dh_m > 0 THEN 9000 ELSE 0 - 9000)

\* Horizontal distances haversine_m returns (0 for an aircraft at the
\* receiver's coordinates) and altitudes that are whole metres.
ElevArgs ==
    [horiz_m : {0, 1, 10, 100, 1000, 10000, 30000},
     Alt_ft : {None, Some(0), Some(0 - 164050), Some(49215), Some(147645),
               Some(98430), Some(3281000), Some(32810000)}]

InitElev ==
    /\ NoRun
    /\ arg \in ElevArgs
    /\ ret = None

CallElev ==
    /\ IsNone(ret)
    /\ ret' = Some([elev_deg |-> elev_deg(arg.horiz_m, arg.Alt_ft)])
    /\ UNCHANGED << run, arg >>

SpecElev == InitElev /\ [][CallElev]_vars

\* C26: with the altitude present and non-zero, the elevation at horizontal
\* distance 0 is +90 degrees when the aircraft is above the receiver and -90
\* degrees when below, and atan2(heightDiff, horizontal) at every positive
\* horizontal distance; it lies in [-90, 90] and has the sign of heightDiff.
C26_ElevationBySign ==
    (~IsNone(ret) /\ ~missing_val(arg.Alt_ft)) =>
        LET heightDiff == aircraft_alt_m(Val(arg.Alt_ft)) - MEAS_ALT_M
            elevation  == Val(Val(ret).elev_deg)
        IN  /\ (arg.horiz_m = 0 /\ heightDiff > 0) => elevation = 9000
            /\ (arg.horiz_m = 0 /\ heightDiff < 0) => elevation = 0 - 9000
            /\ arg.horiz_m > 0 => elevation = atan2_deg(heightDiff, arg.horiz_m)
            /\ 0 - 9000 <= elevation /\ elevation <= 9000
            /\ Sign(elevation) = Sign(heightDiff)

\* ------------------------------------------------------------------------
\* OpenSkyOAuthTokenProvider under get_state
\* ------------------------------------------------------------------------
\* Times are seconds.  ret is the provider (_token, _expires_at) with what the
\* last get_state call did; arg is the clock.
MaxTicks == 6
TickSeconds == 60
RefreshMargin == 120

\* What the token endpoint answers on success: js["access_token"] and
\* int(js.get("expires_in", 1800)) (lines 240-241).
TokenReplies == [access_token : {"", "t1", "t2"}, expires_in : {60, 180, 300}]

TokKeys == { Key(<< "a", "b", "c", "1", "2", "3" >>, t) : t \in {100, 105} }

TokRest == << log, use_opensky, max_api_calls, authenticated, pc, df, idx,
              api_calls, resp, st, out, slept >>

TokenUsable_NoMargin(p, now) ==
    /\ ~IsNone(p._token)
    /\ Val(p._token) # ""
    /\ ~IsNone(p._expires_at)
    /\ now < Val(p._expires_at)

\* Line 230: self._token and self._expires_at and now < expiry - 2 minutes.
TokenUsable(p, now) ==
    /\ ~IsNone(p._token)
    /\ Val(p._token) # ""
    /\ ~IsNone(p._expires_at)
    /\ now < Val(p._expires_at) - RefreshMargin

InitTok ==
    /\ log = << >>
    /\ use_opensky = TRUE
    /\ max_api_calls = 0
    /\ authenticated = TRUE
    /\ pc = "off"
    /\ df = << >>
    /\ idx = 1
    /\ api_calls = 0
    /\ cache = << >>
    /\ queried = << >>
    /\ resp = "none"
    /\ st = None
    /\ out = << >>
    /\ slept = FALSE
    /\ arg = [now |-> 0]
    /\ ret = [_token |-> None, _expires_at |-> None, posts |-> 0,
              last |-> "none", sent |-> None, got |-> None]

\* The clock moves between calls.
TokTick ==
    /\ arg.now < MaxTicks * TickSeconds
    /\ arg' = [now |-> arg.now + TickSeconds]
    /\ UNCHANGED << TokRest, cache, queried, ret >>

\* Lines 283-284: a cached key returns before _headers() is evaluated.
TokCached ==
    \E k \in TokKeys :
        /\ CacheHas(cache, k)
        /\ ret' = [ret EXCEPT !.last = "cached", !.sent = None, !.got = None]
        /\ UNCHANGED << TokRest, cache, queried, arg >>

\* Lines 230-231, then session.get with the held token (lines 290-323).
TokReuse ==
    \E k \in TokKeys, r \in Responses :
        /\ ~CacheHas(cache, k)
        /\ TokenUsable(ret, arg.now)
        /\ ret' = [ret EXCEPT !.last = "held", !.sent = ret._token, !.got = None]
        /\ queried' = Bump(queried, k)
        /\ cache' = CacheStore(cache, k, StateOf(r))
        /\ UNCHANGED << TokRest, arg >>

\* Lines 233-245 with the post answered, then session.get with the new token.
TokRefresh ==
    \E k \in TokKeys, js \in TokenReplies, r \in Responses :
        /\ ~CacheHas(cache, k)
        /\ ~TokenUsable(ret, arg.now)
        /\ ret' = [_token |-> Some(js.access_token),
                   _expires_at |-> Some(arg.now + js.expires_in),
                   posts |-> ret.posts + 1,
                   last |-> "posted", sent |-> Some(js.access_token), got |-> Some(js)]
        /\ queried' = Bump(queried, k)
        /\ cache' = CacheStore(cache, k, StateOf(r))
        /\ UNCHANGED << TokRest, arg >>

\* Lines 238-241 raising (the post, raise_for_status, json(), the missing
\* access_token or int()) before line 242: get_state's except stores None
\* (lines 321-323) and session.get is never called.
TokFail ==
    \E k \in TokKeys :
        /\ ~CacheHas(cache, k)
        /\ ~TokenUsable(ret, arg.now)
        /\ ret' = [ret EXCEPT !.posts = @ + 1, !.last = "failed",
                              !.sent = None, !.got = None]
        /\ cache' = CacheStore(cache, k, None)
        /\ UNCHANGED << TokRest, queried, arg >>

SpecTok == InitTok /\ [][TokTick \/ TokCached \/ TokReuse \/ TokRefresh \/ TokFail]_vars

\* C30: get_token posts exactly when no token is held or the time is at or
\* past two minutes before the stored expiry, and otherwise returns the held
\* token without a request; a successful request replaces token and expiry, a
\* failed one leaves both and get_state records 'no data' for the key.
C30_TokenRefresh ==
    [][ LET held     == ret._token # None /\ ret._token # Some("")
            due      == ~held \/ arg.now >= Val(ret._expires_at) - 120
            asked    == ret'.last \in {"held", "posted", "failed"} /\ cache' # cache
            posted   == ret'.posts = ret.posts + 1
            key      == CHOOSE k \in DOMAIN cache' : k \notin DOMAIN cache
        IN  asked =>
              /\ posted = due
              /\ ~due => (ret'.posts = ret.posts /\ ret'.sent = ret._token
                            /\ ret'._token = ret._token
                            /\ ret'._expires_at = ret._expires_at)
              /\ ret'.last = "posted" =>
                    /\ ret'._token = Some(Val(ret'.got).access_token)
                    /\ ret'._expires_at = Some(arg.now + Val(ret'.got).expires_in)
              /\ ret'.last = "failed" =>
                    /\ ret'._token = ret._token
                    /\ ret'._expires_at = ret._expires_at
                    /\ cache'[key] = None
                    /\ queried' = queried ]_vars

\* A token was obtained, reused for a later key, and a later refresh failed,
\* leaving the token in place and 'no data' in the cache.
C30_Witness ==
    /\ ret.last = "failed"
    /\ ret.posts >= 2
    /\ ret._token = Some("t1")
    /\ \E k \in DOMAIN cache : cache[k] = None

====
